---- MODULE Spec2Model ----
(***************************************************************************)
(* A model of automation_logger: the AutomationRunLogger context manager   *)
(* (logger.py), its builder from_config, the value normalizer jsonable     *)
(* (_json.py) and the path resolvers (_paths.py).                          *)
(*                                                                         *)
(* Python values are records [type, val, tz, elems]; elems is a map from   *)
(* string keys to values (list positions are the keys "0", "1", ...).      *)
(* Strings the code trims, lower-cases or parses are sequences of          *)
(* one-character strings.  Optional values are <<>> (None) or <<v>>.       *)
(***************************************************************************)
EXTENDS Integers, Sequences, FiniteSets, TLC

VARIABLES
    cfg,            \* what load_automation_config returns for config_path
    env,            \* os.environ["AUTOMATION_ID"]: None or a string
    files,          \* the process: __main__.__file__, sys.argv[0], existing files
    call,           \* the last call made on the API and its arguments
    pc,             \* "start", "failed" (from_config raised), "created", "running", "finalized"
    automation_id,  \* AutomationRunLogger.automation_id
    schema_name,    \* AutomationRunLogger.schema_name
    table_name,     \* AutomationRunLogger.table_name
    script_path,    \* AutomationRunLogger.script_path
    context,        \* AutomationRunLogger.context
    output,         \* AutomationRunLogger.output
    flags,          \* AutomationRunLogger.flags
    success,        \* AutomationRunLogger._success
    t0,             \* AutomationRunLogger._t0
    run_time,       \* AutomationRunLogger._run_time
    sink,           \* the rows handed to WarehouseClient.execute_query, in order
    printed,        \* what __exit__ printed: the exception _insert_row raised, or None
    raised          \* the exception the last call let reach its caller, or None

vars == <<cfg, env, files, call, pc, automation_id, schema_name, table_name,
          script_path, context, output, flags, success, t0, run_time, sink, printed, raised>>

world == <<cfg, env, files>>
identity == <<automation_id, schema_name, table_name, script_path, context>>

-----------------------------------------------------------------------------
(* Optional values and maps *)

None == <<>>
Some(v) == <<v>>
IsNone(o) == o = None
Get(o) == o[1]

EmptyMap == [k \in {} |-> TRUE]

\* An exception: its type name and its message
Exc(type, message) == [type |-> type, message |-> message]

\* d[k] = v, the other keys kept (dict.__setitem__)
MapSet(d, k, v) == [x \in DOMAIN d \cup {k} |-> IF x = k THEN v ELSE d[x]]

\* dict.get(k): None when the key is absent
MapGet(d, k) == IF k \in DOMAIN d THEN Some(d[k]) ELSE None

\* dict.update(other): other's keys win
MapUpdate(d, other) ==
    [x \in DOMAIN d \cup DOMAIN other |-> IF x \in DOMAIN other THEN other[x] ELSE d[x]]

-----------------------------------------------------------------------------
(* Python values *)

PyNone == [type |-> "NoneType", val |-> "None", tz |-> "", elems |-> EmptyMap]
PyTrue == [type |-> "bool", val |-> "True", tz |-> "", elems |-> EmptyMap]
PyInt(s) == [type |-> "int", val |-> s, tz |-> "", elems |-> EmptyMap]
PyStr(s) == [type |-> "str", val |-> s, tz |-> "", elems |-> EmptyMap]
PyDatetime(s, z) == [type |-> "datetime", val |-> s, tz |-> z, elems |-> EmptyMap]
PyObject(t, s) == [type |-> t, val |-> s, tz |-> "", elems |-> EmptyMap]
PyList(m) == [type |-> "list", val |-> "", tz |-> "", elems |-> m]
PyDict(m) == [type |-> "dict", val |-> "", tz |-> "", elems |-> m]

\* datetime.isoformat(): the naive text followed by the UTC offset, if any
isoformat(value) == value.val \o value.tz

\* value.replace(tzinfo=timezone.utc)
replace_tzinfo_utc(value) == [value EXCEPT !.tz = "+00:00"]

jsonable(value) ==
    IF value.type = "NoneType" THEN PyNone
    ELSE IF value.type \in {"str", "int", "float", "bool", "list", "dict"} THEN value
    ELSE IF value.type = "datetime"
         THEN PyStr(isoformat(IF value.tz = "" THEN replace_tzinfo_utc(value) ELSE value))
    ELSE PyStr(value.val)

\* json.dumps accepts the value (it raises TypeError otherwise)
RECURSIVE JsonSerializable(_)
JsonSerializable(value) ==
    IF value.type \in {"NoneType", "str", "int", "float", "bool"} THEN TRUE
    ELSE IF value.type \in {"list", "dict"}
         THEN \A k \in DOMAIN value.elems : JsonSerializable(value.elems[k])
    ELSE FALSE

\* json.dumps(d or {}) of one of the recorder's mappings succeeds
DumpsOk(d) == \A k \in DOMAIN d : JsonSerializable(d[k])

-----------------------------------------------------------------------------
(* Strings as sequences of characters *)

IsSpace(c) == c \in {" ", "\t", "\n"}

RECURSIVE lstrip(_)
lstrip(s) == IF s # <<>> /\ IsSpace(Head(s)) THEN lstrip(Tail(s)) ELSE s

RECURSIVE rstrip(_)
rstrip(s) ==
    IF s # <<>> /\ IsSpace(s[Len(s)]) THEN rstrip(SubSeq(s, 1, Len(s) - 1)) ELSE s

\* str.strip()
strip(s) == rstrip(lstrip(s))

UpperCase == <<"A", "B", "C", "D", "E", "F", "G", "H", "I", "J", "K", "L", "M",
               "N", "O", "P", "Q", "R", "S", "T", "U", "V", "W", "X", "Y", "Z">>
LowerCase == <<"a", "b", "c", "d", "e", "f", "g", "h", "i", "j", "k", "l", "m",
               "n", "o", "p", "q", "r", "s", "t", "u", "v", "w", "x", "y", "z">>

\* Each upper-case letter's lower-case letter
LowerTable ==
    [c \in {UpperCase[i] : i \in DOMAIN UpperCase} |->
        LowerCase[CHOOSE i \in DOMAIN UpperCase : UpperCase[i] = c]]

LowerChar(c) == IF c \in DOMAIN LowerTable THEN LowerTable[c] ELSE c

\* str.lower()
lower(s) == [i \in 1..Len(s) |-> LowerChar(s[i])]

\* The characters of the decimal digits 0..9, by value + 1
DecimalChars == <<"0", "1", "2", "3", "4", "5", "6", "7", "8", "9">>
IsDecimal(c) == \E i \in DOMAIN DecimalChars : DecimalChars[i] = c
DecimalValue(c) == (CHOOSE i \in DOMAIN DecimalChars : DecimalChars[i] = c) - 1

\* Characters str.isdigit() accepts and int() rejects: digits that are not
\* decimal, such as SUPERSCRIPT TWO (U+00B2), written "sup2" here.
OtherDigitChars == {"sup2"}

\* str.isdigit(): non-empty and every character is a digit
isdigit(s) == s # <<>> /\ \A i \in 1..Len(s) : IsDecimal(s[i]) \/ s[i] \in OtherDigitChars

RECURSIVE DecimalNumber(_)
DecimalNumber(s) ==
    IF s = <<>> THEN 0
    ELSE 10 * DecimalNumber(SubSeq(s, 1, Len(s) - 1)) + DecimalValue(s[Len(s)])

\* int(s) for a string of digits: the number, or ValueError
int(s) ==
    IF \A i \in 1..Len(s) : IsDecimal(s[i])
    THEN [raises |-> None, value |-> Some(DecimalNumber(s))]
    ELSE [raises |-> Some(Exc("ValueError", "invalid literal for int() with base 10")),
          value |-> None]

-----------------------------------------------------------------------------
(* The recorder: AutomationRunLogger *)

\* Clock readings are counted in ticks of 1/TicksPerMs millisecond.
TicksPerMs == 2
MaxTime == 2
Times == 0..MaxTime

\* int(x): truncation toward zero
Trunc(num, den) == IF num >= 0 THEN num \div den ELSE -((-num) \div den)

\* datetime.now(timezone.utc) when the clock reads now
UtcNow(now) == [ticks |-> now, tz |-> "+00:00"]

NoArgs ==
    [automation_id |-> None, schema_name |-> None, table_name |-> None,
     script_path |-> None, path_mode |-> None]

NoCall ==
    [op |-> "none", args |-> NoArgs, name |-> None, meta |-> EmptyMap, key |-> "",
     value |-> PyNone, payload |-> EmptyMap, exc |-> None, wh |-> "", now |-> 0]

\* set_output as an update: the payload's keys laid over the old mapping
set_output_merged(payload) ==
    [k \in DOMAIN output \cup DOMAIN payload |->
        IF k \in DOMAIN payload THEN jsonable(payload[k]) ELSE output[k]]

\* set_output: every value of the payload normalized, the old mapping dropped
set_output(payload) == [k \in DOMAIN payload |-> jsonable(payload[k])]

\* add_output: one key upserted
add_output(out, key, value) == MapSet(out, key, jsonable(value))

\* mark_failure
mark_failure(s) == FALSE

\* add_flag validating the name as given, without trimming it
add_flag_raises_untrimmed(name) ==
    IF IsNone(name) \/ Get(name) = <<>>
    THEN Some(Exc("ValueError", "flag name must be a non-empty string"))
    ELSE None

\* add_flag's two validations of name (None stands for a name that is no string)
add_flag_raises(name) ==
    IF IsNone(name) \/ Get(name) = <<>>
    THEN Some(Exc("ValueError", "flag name must be a non-empty string"))
    ELSE IF strip(Get(name)) = <<>>
    THEN Some(Exc("ValueError", "flag name must be a non-empty string"))
    ELSE None

\* flags[name] = True, whatever was there
flags_assign_true(fl, name) == MapSet(fl, name, PyTrue)

\* flags.setdefault(name, True)
flags_setdefault(fl, name) == IF name \in DOMAIN fl THEN fl ELSE MapSet(fl, name, PyTrue)

\* the dict the metadata is merged into
flag_existing(fl, name) ==
    LET existing == MapGet(fl, name) IN
    IF IsNone(existing) \/ Get(existing) = PyTrue \/ Get(existing) = PyNone THEN EmptyMap
    ELSE IF Get(existing).type # "dict" THEN "value" :> jsonable(Get(existing))
    ELSE Get(existing).elems

\* flags[name] = the new metadata alone
flags_overwrite(fl, name, meta) ==
    MapSet(fl, name, PyDict([k \in DOMAIN meta |-> jsonable(meta[k])]))

\* existing[k] = jsonable(v) for each metadata item; flags[name] = existing
flags_merge(fl, name, meta) ==
    MapSet(fl, name,
           PyDict(MapUpdate(flag_existing(fl, name),
                            [k \in DOMAIN meta |-> jsonable(meta[k])])))

\* add_flag keyed by the name as given, untrimmed
add_flag_untrimmed_key(fl, name, meta) ==
    IF meta = EmptyMap THEN flags_setdefault(fl, name)
    ELSE flags_merge(fl, name, meta)

\* add_flag on a name that passed validation
add_flag(fl, name, meta) ==
    IF meta = EmptyMap THEN flags_setdefault(fl, strip(name))
    ELSE flags_merge(fl, strip(name), meta)

\* output["error"] as __exit__ builds it
ErrorInfo(exc) ==
    PyDict("type" :> PyStr(exc.type) @@ "message" :> PyStr(exc.message)
           @@ "traceback" :> PyStr("Traceback (most recent call last): "
                                    \o exc.type \o ": " \o exc.message))

\* success recomputed from the exception alone
exit_success_recomputed(s, exc) == exc = None

\* success also lost when the output holds an "error" key
exit_success_error_key(s, exc) ==
    IF exc # None \/ "error" \in DOMAIN output THEN FALSE ELSE s

\* __exit__: the success flag after the exception check
exit_success(s, exc) == IF exc # None THEN FALSE ELSE s

\* output.setdefault("error", ...): an "error" the run stored is kept
exit_output_setdefault(out, exc) ==
    IF exc # None /\ "error" \notin DOMAIN out
    THEN MapSet(out, "error", ErrorInfo(Get(exc)))
    ELSE out

\* __exit__: the output after the exception check
exit_output(out, exc) ==
    IF exc # None THEN MapSet(out, "error", ErrorInfo(Get(exc))) ELSE out

\* run_time taken at the exit, whatever __enter__ stored
exit_run_time_now(rt, now) == Some(UtcNow(now))

\* __exit__: self._run_time or datetime.now(timezone.utc)
exit_run_time(rt, now) == IF IsNone(rt) THEN Some(UtcNow(now)) ELSE rt

\* json.dumps(d or {}): the text of the mapping
dumps(d) == [json |-> d]

\* _insert_row: the exception it raises and the rows the warehouse client was
\* _insert_row with the output's keys laid over the row's context
insert_row_mixed(s, rt, duration_ms, out, wh) ==
    IF ~(DumpsOk(out) /\ DumpsOk(context) /\ DumpsOk(flags))
    THEN [raises |-> Some(Exc("TypeError", "Object is not JSON serializable")), rows |-> <<>>]
    ELSE [raises |-> IF wh = "ok" THEN None
                     ELSE Some(Exc("WarehouseError", "could not write the row")),
          rows |-> << [automation_id |-> automation_id, run_time |-> rt,
                       context |-> dumps(MapUpdate(context, out)), output |-> dumps(out),
                       flags |-> dumps(flags), success |-> s,
                       duration_ms |-> duration_ms, result |-> wh,
                       relation |-> <<schema_name, table_name>>] >>]

\* handed; wh is what execute_query does with the row ("ok" or "error")
insert_row(s, rt, duration_ms, out, wh) ==
    IF ~(DumpsOk(out) /\ DumpsOk(context) /\ DumpsOk(flags))
    THEN [raises |-> Some(Exc("TypeError", "Object is not JSON serializable")), rows |-> <<>>]
    ELSE [raises |-> IF wh = "ok" THEN None
                     ELSE Some(Exc("WarehouseError", "could not write the row")),
          rows |-> << [automation_id |-> automation_id, run_time |-> rt,
                       context |-> dumps(context), output |-> dumps(out),
                       flags |-> dumps(flags), success |-> s,
                       duration_ms |-> duration_ms, result |-> wh,
                       relation |-> <<schema_name, table_name>>] >>]

\* __exit__ without the try/except: what _insert_row raises leaves __exit__
exit_returns_unguarded(log_exc) == [raises |-> log_exc, printed |-> None, returns |-> FALSE]

\* __exit__'s try/except around _insert_row and its return value
exit_returns(log_exc) == [raises |-> None, printed |-> log_exc, returns |-> FALSE]

\* What the with statement lets reach the caller once __exit__ is done
with_raises(exc, ret) ==
    IF ret.raises # None THEN ret.raises
    ELSE IF exc # None /\ ~ret.returns THEN exc
    ELSE None

-----------------------------------------------------------------------------
(* Paths: sequences of pieces, "/" first when absolute, directories ending  *)
(* in "/".  The working directory of the process is Cwd.                    *)

Cwd == <<"/", "work/">>

\* os.getcwd()
getcwd == Cwd

\* os.path.abspath
abspath(p) == IF p # <<>> /\ Head(p) = "/" THEN p ELSE getcwd \o p

\* os.path.dirname
dirname(p) == IF p = <<>> THEN p ELSE SubSeq(p, 1, Len(p) - 1)

\* os.path.isfile
isfile(p) == p \in files.existing

\* The text of a string or path given as pieces
RECURSIVE Text(_)
Text(s) == IF s = <<>> THEN "" ELSE Head(s) \o Text(Tail(s))

\* Python truth of an optional string: neither None nor empty
Truthy(o) == o # None /\ Get(o) # <<>>

\* a or b
Or(a, b) == IF Truthy(a) THEN a ELSE b

\* The name this library's frames carry in their file names
IsLibraryFrame(filename) == \E i \in 1..Len(filename) : filename[i] = "automation_logger/"

\* inspect.stack(): _paths.py never imports inspect, so the name lookup
\* raises NameError before any frame is read
inspect_stack == [raises |-> Some("NameError"), frames |-> <<>>]

\* The first frame outside the library whose file exists
RECURSIVE first_existing_frame(_)
first_existing_frame(frames) ==
    IF frames = <<>> THEN None
    ELSE IF Head(frames) = <<>> \/ IsLibraryFrame(Head(frames))
            \/ ~isfile(abspath(Head(frames)))
         THEN first_existing_frame(Tail(frames))
    ELSE Some(abspath(Head(frames)))

\* the stack inspection fallback inside its try/except Exception
stack_scan ==
    IF inspect_stack.raises # None THEN None
    ELSE first_existing_frame(inspect_stack.frames)

\* a path if it is set and names an existing file
existing_file(o) == IF Truthy(o) /\ isfile(abspath(Get(o))) THEN Some(abspath(Get(o))) ELSE None

resolve_entry_script_path(explicit) ==
    IF Truthy(explicit) THEN existing_file(explicit)
    ELSE IF existing_file(files.main_file) # None THEN existing_file(files.main_file)
    ELSE IF existing_file(files.argv0) # None THEN existing_file(files.argv0)
    ELSE stack_scan

ScriptMode == <<"s", "c", "r", "i", "p", "t">>
CwdMode == <<"c", "w", "d">>

resolve_path(path_mode, path) ==
    LET mode == lower(strip(IF path_mode = <<>> THEN CwdMode ELSE path_mode)) IN
    IF mode = ScriptMode /\ Truthy(path) THEN dirname(abspath(Get(path)))
    ELSE getcwd

\* get_host_context(): the facts of one host (no COMPUTERNAME variable set)
get_host_context ==
    "host_name" :> PyStr("worker-1") @@ "computername" :> PyNone
    @@ "fqdn" :> PyStr("worker-1.example.org") @@ "host_ip" :> PyStr("10.0.0.5")
    @@ "platform" :> PyStr("Linux-6.1-x86_64") @@ "python" :> PyStr("3.11.4")

-----------------------------------------------------------------------------
(* from_config *)

DefaultSchema == <<"automations">>
DefaultTable == <<"run_log">>
ConfigPath == <<"automation.config">>

\* AUTOMATION_ID parsed: the exception int() raises and the id, if any
env_automation_id ==
    IF Truthy(env) /\ isdigit(Get(env)) THEN int(Get(env))
    ELSE [raises |-> None, value |-> None]

\* an id of 0 when no source gives one
final_automation_id_defaulted(arg_id, cfg_id, env_id) ==
    IF arg_id # None THEN arg_id
    ELSE IF cfg_id # None THEN cfg_id
    ELSE IF env_id # None THEN env_id
    ELSE Some(0)

\* explicit argument, else config value, else environment value
final_automation_id(arg_id, cfg_id, env_id) ==
    IF arg_id # None THEN arg_id ELSE IF cfg_id # None THEN cfg_id ELSE env_id

\* the config value taken before the argument
final_schema_name_config_first(arg, cfg_value) ==
    Get(Or(Or(cfg_value, arg), Some(DefaultSchema)))

final_schema_name(arg, cfg_value) == Get(Or(Or(arg, cfg_value), Some(DefaultSchema)))
final_table_name(arg, cfg_value) == Get(Or(Or(arg, cfg_value), Some(DefaultTable)))

\* the requested mode kept as "script" when no entry script was found
final_path_mode_kept(arg, cfg_value, entry_script_path) ==
    lower(strip(Get(Or(Or(arg, cfg_value), Some(ScriptMode)))))

\* the requested mode, trimmed and lower-cased, downgraded without a script
final_path_mode(arg, cfg_value, entry_script_path) ==
    LET mode == lower(strip(Get(Or(Or(arg, cfg_value), Some(ScriptMode))))) IN
    IF mode = ScriptMode /\ ~Truthy(entry_script_path) THEN CwdMode ELSE mode

\* The texts of the config path and of the working directory
ConfigPathText == Text(ConfigPath)
CwdText == Text(getcwd)

\* the context payload of the built recorder
build_context(path_mode, entry_script_path) ==
    LET base == "config_path" :> PyStr(ConfigPathText)
                @@ "path_mode" :> PyStr(Text(path_mode))
                @@ "cwd" :> PyStr(CwdText)
                @@ "resolved_path" :> PyStr(Text(resolve_path(path_mode, entry_script_path)))
        entry == IF Truthy(entry_script_path)
                 THEN "entry_script_path" :> PyStr(Text(Get(entry_script_path)))
                      @@ "entry_script_dir" :> PyStr(Text(dirname(Get(entry_script_path))))
                 ELSE EmptyMap
    IN MapUpdate(MapUpdate(base, entry), get_host_context)

\* from_config(args): the exception it raises, or the recorder it returns
from_config(args) ==
    LET env_id == env_automation_id
        final_id == final_automation_id(args.automation_id, cfg.automation_id, env_id.value)
        entry_script_path == resolve_entry_script_path(args.script_path)
        mode == final_path_mode(args.path_mode, cfg.path_mode, entry_script_path)
    IN  IF env_id.raises # None THEN [raises |-> env_id.raises, logger |-> None]
        ELSE IF final_id = None
        THEN [raises |-> Some(Exc("ValueError", "automation_id is required")),
              logger |-> None]
        ELSE [raises |-> None,
              logger |-> Some(
                  [automation_id |-> Get(final_id),
                   schema_name |-> final_schema_name(args.schema_name, cfg.schema_name),
                   table_name |-> final_table_name(args.table_name, cfg.table_name),
                   script_path |-> entry_script_path,
                   context |-> build_context(mode, entry_script_path)])]

-----------------------------------------------------------------------------
(* Inputs of the run *)

NaiveStamp == PyDatetime("2024-05-01T10:00:00", "")
RunExceptions ==
    {[type |-> "ValueError", message |-> "bad row"],
     [type |-> "KeyError", message |-> "id"]}
OutputKeys == {"error", "rows"}
OutputValues == {PyInt("1"), NaiveStamp, PyList("0" :> NaiveStamp)}
PayloadValues == {PyInt("1"), NaiveStamp}
Payloads == UNION {[ks -> PayloadValues] : ks \in SUBSET OutputKeys}
RunFlagNames == {Some(<<"x">>), Some(<<" ">>), Some(<<>>)}
RunFlagMetas == {EmptyMap, "a" :> PyInt("1")}

-----------------------------------------------------------------------------
(* The recorder's operations *)

Usable == pc \in {"created", "running", "finalized"}

SetOutput ==
    /\ Usable
    /\ \E payload \in Payloads :
        /\ output' = set_output(payload)
        /\ call' = [NoCall EXCEPT !.op = "set_output", !.payload = payload]
    /\ raised' = None
    /\ UNCHANGED <<world, identity, pc, flags, success, t0, run_time, sink, printed>>

AddOutput ==
    /\ Usable
    /\ \E key \in OutputKeys, value \in OutputValues :
        /\ output' = add_output(output, key, value)
        /\ call' = [NoCall EXCEPT !.op = "add_output", !.key = key, !.value = value]
    /\ raised' = None
    /\ UNCHANGED <<world, identity, pc, flags, success, t0, run_time, sink, printed>>

MarkFailure ==
    /\ Usable
    /\ success' = mark_failure(success)
    /\ call' = [NoCall EXCEPT !.op = "mark_failure"]
    /\ raised' = None
    /\ UNCHANGED <<world, identity, pc, output, flags, t0, run_time, sink, printed>>

AddFlagOver(names, metas) ==
    /\ Usable
    /\ \E name \in names, meta \in metas :
        /\ call' = [NoCall EXCEPT !.op = "add_flag", !.name = name, !.meta = meta]
        /\ raised' = add_flag_raises(name)
        /\ flags' = IF add_flag_raises(name) # None THEN flags
                    ELSE add_flag(flags, Get(name), meta)
    /\ UNCHANGED <<world, identity, pc, output, success, t0, run_time, sink, printed>>

AddFlag == AddFlagOver(RunFlagNames, RunFlagMetas)

Enter ==
    /\ pc = "created"
    /\ \E now \in Times :
        /\ t0' = now
        /\ run_time' = Some(UtcNow(now))
        /\ call' = [NoCall EXCEPT !.op = "enter", !.now = now]
    /\ pc' = "running"
    /\ raised' = None
    /\ UNCHANGED <<world, identity, output, flags, success, sink, printed>>

Exit ==
    /\ pc = "running"
    /\ \E exc \in {None} \cup {Some(e) : e \in RunExceptions},
          wh \in {"ok", "error"}, now \in Times :
        LET duration_ms == Trunc((now - t0) * 1000, 1000 * TicksPerMs)
            rt == exit_run_time(run_time, now)
            s == exit_success(success, exc)
            out == exit_output(output, exc)
            ins == insert_row(s, rt, duration_ms, out, wh)
            ret == exit_returns(ins.raises)
        IN  /\ success' = s
            /\ output' = out
            /\ sink' = sink \o ins.rows
            /\ printed' = ret.printed
            /\ raised' = with_raises(exc, ret)
            /\ call' = [NoCall EXCEPT !.op = "exit", !.exc = exc, !.wh = wh, !.now = now]
    /\ pc' = "finalized"
    /\ UNCHANGED <<world, identity, flags, t0, run_time>>

-----------------------------------------------------------------------------
(* The run of one recorder, built as from_config(automation_id=1) builds it *)
(* where no entry script is found                                          *)

NoConfig ==
    [automation_id |-> None, schema_name |-> None, table_name |-> None, path_mode |-> None]
NoFiles == [main_file |-> None, argv0 |-> None, stack |-> <<>>, existing |-> {}]

Init ==
    /\ cfg = NoConfig /\ env = None /\ files = NoFiles
    /\ call = NoCall
    /\ pc = "created"
    /\ automation_id = 1
    /\ schema_name = DefaultSchema
    /\ table_name = DefaultTable
    /\ script_path = None
    /\ context = build_context(CwdMode, None)
    /\ output = EmptyMap
    /\ flags = EmptyMap
    /\ success = TRUE
    /\ t0 = 0
    /\ run_time = None
    /\ sink = <<>>
    /\ printed = None
    /\ raised = None

Next == SetOutput \/ AddOutput \/ MarkFailure \/ AddFlag \/ Enter \/ Exit

Spec == Init /\ [][Next]_vars

-----------------------------------------------------------------------------
(* Flags accumulated by add_flag alone, over more names and metadata *)

FlagNames ==
    {None, Some(<<>>), Some(<<" ">>), Some(<<"x">>), Some(<<" ", "x", " ">>), Some(<<"y">>)}
MetaKeys == {"a", "b"}
MetaValues == {PyInt("1"), PyInt("2"), NaiveStamp}
FlagMetas == UNION {[ks -> MetaValues] : ks \in SUBSET MetaKeys}

AddFlagAny == AddFlagOver(FlagNames, FlagMetas)

NextFlags == AddFlagAny

SpecFlags == Init /\ [][NextFlags]_vars

-----------------------------------------------------------------------------
(* Building a recorder with from_config *)

MaxEnvLen == 1
EnvChars == {"7", "sup2", "x"}
EnvStrings == UNION {[1..n -> EnvChars] : n \in 0..MaxEnvLen}

MainFile == <<"/", "app/", "main.py">>
Argv0 == <<"run.py">>
GivenScript == <<"jobs/", "job.py">>
LibraryFrame == <<"/", "site-packages/", "automation_logger/", "logger.py">>
CallerFrame == <<"/", "app/", "caller.py">>

Configs ==
    [automation_id : {None, Some(5)},
     schema_name : {None, Some(<<"cfg_schema">>)},
     table_name : {None, Some(<<"cfg_table">>)},
     path_mode : {None, Some(CwdMode), Some(<<"S", "C", "R", "I", "P", "T">>)}]

Processes ==
    [main_file : {Some(MainFile)}, argv0 : {Some(Argv0)},
     stack : {<<LibraryFrame, CallerFrame>>},
     existing : {fs \cup {CallerFrame} :
                    fs \in SUBSET {MainFile, abspath(Argv0), abspath(GivenScript)}}]

Arguments ==
    [automation_id : {None, Some(0)},
     schema_name : {None, Some(<<>>), Some(<<"arg_schema">>)},
     table_name : {None, Some(<<"arg_table">>)},
     script_path : {None, Some(GivenScript)},
     path_mode : {None, Some(<<" ", "S", "c", "r", "i", "p", "t", " ">>),
                  Some(<<"b", "o", "g", "u", "s">>), Some(<<" ">>)}]

FromConfig ==
    /\ pc = "start"
    /\ \E args \in Arguments :
        LET r == from_config(args) IN
        /\ call' = [NoCall EXCEPT !.op = "from_config", !.args = args]
        /\ raised' = r.raises
        /\ IF r.raises # None
           THEN /\ pc' = "failed"
                /\ UNCHANGED <<identity, output, flags, success, t0, run_time>>
           ELSE /\ pc' = "created"
                /\ automation_id' = Get(r.logger).automation_id
                /\ schema_name' = Get(r.logger).schema_name
                /\ table_name' = Get(r.logger).table_name
                /\ script_path' = Get(r.logger).script_path
                /\ context' = Get(r.logger).context
                /\ output' = EmptyMap
                /\ flags' = EmptyMap
                /\ success' = TRUE
                /\ t0' = 0
                /\ run_time' = None
    /\ UNCHANGED <<world, sink, printed>>

\* Before from_config returns there is no recorder: its fields hold placeholders.
InitBuild ==
    /\ cfg \in Configs
    /\ env \in {None} \cup {Some(e) : e \in EnvStrings}
    /\ files \in Processes
    /\ call = NoCall
    /\ pc = "start"
    /\ automation_id = 0
    /\ schema_name = <<>>
    /\ table_name = <<>>
    /\ script_path = None
    /\ context = EmptyMap
    /\ output = EmptyMap
    /\ flags = EmptyMap
    /\ success = FALSE
    /\ t0 = 0
    /\ run_time = None
    /\ sink = <<>>
    /\ printed = None
    /\ raised = None

NextBuild == FromConfig

SpecBuild == InitBuild /\ [][NextBuild]_vars

-----------------------------------------------------------------------------
(* Properties *)

\* The last call was __exit__ leaving the with block
Exited == call.op = "exit"

\* output["error"]["type"] of a mapping, when it is there
ErrorType(out) ==
    IF "error" \in DOMAIN out /\ "type" \in DOMAIN out["error"].elems
    THEN Some(out["error"].elems["type"])
    ELSE None

\* C1: when the monitored work raises, the recorder and every row handed to
\* the warehouse at that exit carry success = false and an error entry whose
\* type is the exception's type name (replacing any "error" the run stored),
\* and the same exception reaches the caller of the with block.
C1_FailureRecordedAndPropagated ==
    (Exited /\ call.exc # None) =>
        /\ success = FALSE
        /\ ErrorType(output) = Some(PyStr(Get(call.exc).type))
        /\ raised = call.exc
        /\ \A i \in DOMAIN sink :
            /\ sink[i].success = FALSE
            /\ ErrorType(sink[i].output.json) = Some(PyStr(Get(call.exc).type))

\* C1 witness: a KeyError left the block and its row reached the warehouse
C1_Witness ==
    /\ Exited
    /\ call.exc = Some(Exc("KeyError", "id"))
    /\ Len(sink) = 1
    /\ raised = call.exc

\* The write of the last exit failed: the warehouse refused the row, or the
\* row could not be serialized
WriteFailed == Exited /\ (sink = <<>> \/ sink[Len(sink)].result = "error")

\* C2: a failed persistence write is absorbed: the caller of the with block
\* sees the run's own exception if it raised one and no exception otherwise,
\* never the write's, and the recorder is finalized.
C2_WriteFailureAbsorbed ==
    WriteFailed => (raised = call.exc /\ printed # None /\ pc = "finalized")

\* C2 witness: the warehouse refused the row of a run that raised
C2_Witness ==
    /\ WriteFailed
    /\ Len(sink) = 1
    /\ call.exc # None
    /\ raised = call.exc
    /\ printed = Some(Exc("WarehouseError", "could not write the row"))

\* C3: every entered scope that has exited handed exactly one row to the
\* warehouse, and no row is handed over before the exit.
C3_ExactlyOneRecord ==
    /\ pc = "finalized" => Len(sink) = 1
    /\ pc \in {"created", "running"} => Len(sink) = 0

\* C4: success starts true, mark_failure and an exit with an exception make
\* it false, and once false it is false after every later call.
C4_SuccessMonotone ==
    /\ success = TRUE
    /\ [][/\ success = FALSE => success' = FALSE
          /\ call'.op = "mark_failure" => success' = FALSE
          /\ (call'.op = "exit" /\ call'.exc # None) => success' = FALSE]_vars

\* C4 witness: a run marked failed, then left without an exception, then
\* written to again
C4_Witness ==
    /\ pc = "finalized"
    /\ success = FALSE
    /\ call.op = "set_output"
    /\ sink # <<>>
    /\ sink[1].success = FALSE
    /\ ErrorType(sink[1].output.json) = None

\* The environment value is a decimal integer string
EnvIsDecimal == env # None /\ Get(env) # <<>> /\ \A i \in 1..Len(Get(env)) : IsDecimal(Get(env)[i])

\* The id the three sources give, an environment value that is no decimal
\* integer string counting as unset
ExpectedId ==
    IF call.args.automation_id # None THEN call.args.automation_id
    ELSE IF cfg.automation_id # None THEN cfg.automation_id
    ELSE IF EnvIsDecimal THEN Some(DecimalNumber(Get(env)))
    ELSE None

\* C5: from_config resolves automation_id to the argument, else the config
\* value, else the environment value, and an environment value that is no
\* decimal integer string changes nothing: whenever a source gives an id the
\* recorder is built with it.
C5_IdPrecedence ==
    (call.op = "from_config" /\ ExpectedId # None) =>
        (pc = "created" /\ raised = None /\ automation_id = Get(ExpectedId))

\* A field resolved as argument, else config value, else default, a missing
\* or empty string counting as not supplied
Resolved(arg, cfg_value, default) ==
    IF arg # None /\ Get(arg) # <<>> THEN Get(arg)
    ELSE IF cfg_value # None /\ Get(cfg_value) # <<>> THEN Get(cfg_value)
    ELSE default

\* C6: schema_name and table_name are each resolved from their own argument,
\* their own config value and their own default, whatever the other field's
\* and automation_id's sources are.
C6_SchemaTableIndependent ==
    pc = "created" =>
        /\ schema_name = Resolved(call.args.schema_name, cfg.schema_name, <<"automations">>)
        /\ table_name = Resolved(call.args.table_name, cfg.table_name, <<"run_log">>)

\* C6 witness: schema from the argument, table from the config, id from the
\* environment
C6_Witness ==
    /\ pc = "created"
    /\ schema_name = <<"arg_schema">>
    /\ cfg.schema_name = Some(<<"cfg_schema">>)
    /\ call.args.table_name = None
    /\ table_name = <<"cfg_table">>
    /\ call.args.automation_id = None
    /\ cfg.automation_id = None
    /\ automation_id = 7

\* C7: with no automation_id from the argument, the config or the
\* environment, from_config raises, builds no recorder and hands nothing to
\* the warehouse.
C7_NoIdFails ==
    (call.op = "from_config" /\ ExpectedId = None) =>
        /\ pc = "failed"
        /\ raised # None
        /\ Get(raised).type = "ValueError"
        /\ sink = <<>>

\* C7 witness: only a non-numeric environment value was there
C7_Witness ==
    /\ pc = "failed"
    /\ call.args.automation_id = None
    /\ cfg.automation_id = None
    /\ env = Some(<<"x">>)
    /\ raised = Some(Exc("ValueError", "automation_id is required"))

\* The name of an accepted add_flag call, as the flags mapping keys it
FlagKey(c) == strip(Get(c.name))

\* C8: add_flag(name) without metadata makes an absent flag the sentinel
\* true and leaves the flags mapping as it was when the flag is there in any
\* form.
C8_AddFlagIdempotent ==
    [][(call'.op = "add_flag" /\ call'.meta = EmptyMap /\ raised' = None) =>
          IF FlagKey(call') \in DOMAIN flags
          THEN flags' = flags
          ELSE /\ DOMAIN flags' = DOMAIN flags \cup {FlagKey(call')}
               /\ flags'[FlagKey(call')] = PyTrue
               /\ \A n \in DOMAIN flags : flags'[n] = flags[n]]_vars

\* C8 witness: add_flag("x") called on a flag that holds a metadata map
C8_Witness ==
    /\ call.op = "add_flag"
    /\ call.name = Some(<<"x">>)
    /\ call.meta = EmptyMap
    /\ <<"x">> \in DOMAIN flags
    /\ flags[<<"x">>] = PyDict("a" :> PyInt("1"))

\* The metadata map a flag holds; the empty map for an absent flag and for
\* the sentinel
MetaOf(fl, n) == IF n \in DOMAIN fl /\ fl[n].type = "dict" THEN fl[n].elems ELSE EmptyMap

\* C9: add_flag(name, metadata) stores the previous metadata map with every
\* new key set to its normalized value, the other keys of the flag and all
\* other flags kept.
C9_AddFlagMerges ==
    [][(call'.op = "add_flag" /\ call'.meta # EmptyMap /\ raised' = None) =>
          LET n == FlagKey(call')
              old == MetaOf(flags, n)
              new == call'.meta
          IN  /\ DOMAIN flags' = DOMAIN flags \cup {n}
              /\ \A m \in DOMAIN flags \ {n} : flags'[m] = flags[m]
              /\ flags'[n].type = "dict"
              /\ DOMAIN flags'[n].elems = DOMAIN old \cup DOMAIN new
              /\ \A k \in DOMAIN new : flags'[n].elems[k] = jsonable(new[k])
              /\ \A k \in DOMAIN old \ DOMAIN new : flags'[n].elems[k] = old[k]]_vars

\* C9 witness: add_flag("x", b=2) on a flag holding {a: 1} gives {a: 1, b: 2}
C9_Witness ==
    /\ call.op = "add_flag"
    /\ call.name = Some(<<"x">>)
    /\ call.meta = "b" :> PyInt("2")
    /\ <<"x">> \in DOMAIN flags
    /\ flags[<<"x">>] = PyDict("a" :> PyInt("1") @@ "b" :> PyInt("2"))

\* A name that is no string, is empty, or is only whitespace
BlankName(name) == name = None \/ \A i \in 1..Len(Get(name)) : IsSpace(Get(name)[i])

\* C10: add_flag with an empty or whitespace-only name raises to its caller
\* and leaves flags, output and success as they were, with or without
\* metadata.
C10_BlankNameRejected ==
    [][(call'.op = "add_flag" /\ BlankName(call'.name)) =>
          /\ raised' # None
          /\ flags' = flags
          /\ output' = output
          /\ success' = success]_vars

\* C10 witness: a whitespace-only name with metadata was rejected on a
\* recorder that already holds a flag and an output
C10_Witness ==
    /\ call.op = "add_flag"
    /\ call.name = Some(<<" ">>)
    /\ call.meta # EmptyMap
    /\ raised = Some(Exc("ValueError", "flag name must be a non-empty string"))
    /\ flags # EmptyMap
    /\ output # EmptyMap
    /\ success = FALSE

\* The path mode asked for: the argument, else the config value, else
\* "script", trimmed and lower-cased
RequestedMode ==
    lower(strip(Resolved(call.args.path_mode, cfg.path_mode, <<"s", "c", "r", "i", "p", "t">>)))

\* C11: when the mode asked for is "script" and no entry script is found, the
\* context records path_mode "cwd" and the working directory as
\* resolved_path.
C11_ScriptDowngradedToCwd ==
    (pc = "created" /\ RequestedMode = <<"s", "c", "r", "i", "p", "t">> /\ script_path = None) =>
        /\ context["path_mode"] = PyStr("cwd")
        /\ context["resolved_path"] = PyStr("/work/")

\* C11 witness: the config asks for SCRIPT, the given script does not exist
C11_Witness ==
    /\ pc = "created"
    /\ call.args.path_mode = None
    /\ cfg.path_mode = Some(<<"S", "C", "R", "I", "P", "T">>)
    /\ call.args.script_path # None
    /\ script_path = None
    /\ context["path_mode"] = PyStr("cwd")

\* C12: the recorded path_mode is "cwd" or "script" and names the method
\* used: with "script" resolved_path is the entry script's directory, with
\* "cwd" it is the working directory.
C12_RecordedModeMatchesMethod ==
    pc = "created" =>
        /\ context["path_mode"] \in {PyStr("cwd"), PyStr("script")}
        /\ context["path_mode"] = PyStr("script") =>
              /\ script_path # None
              /\ context["resolved_path"] = PyStr(Text(dirname(Get(script_path))))
        /\ context["path_mode"] = PyStr("cwd") =>
              context["resolved_path"] = PyStr("/work/")

\* The file a signal names, when it names an existing file
Signal(o) ==
    IF o # None /\ Get(o) # <<>> /\ abspath(Get(o)) \in files.existing
    THEN Some(abspath(Get(o)))
    ELSE None

\* The frames of the call stack outside the library whose files exist
OutsideFrames ==
    SelectSeq(files.stack,
              LAMBDA f : f # <<>> /\ ~IsLibraryFrame(f) /\ abspath(f) \in files.existing)

\* The entry point the chain of signals gives: the override, the main
\* module's file, the first command-line argument, the call stack
ExpectedEntry ==
    IF Signal(call.args.script_path) # None THEN Signal(call.args.script_path)
    ELSE IF Signal(files.main_file) # None THEN Signal(files.main_file)
    ELSE IF Signal(files.argv0) # None THEN Signal(files.argv0)
    ELSE IF OutsideFrames # <<>> THEN Some(abspath(Head(OutsideFrames)))
    ELSE None

\* C18: the entry point found is the first signal, in the order override,
\* main module, first argument, call stack, that names an existing file, and
\* nothing only when no signal does.
C18_FirstExistingSignal ==
    pc = "created" => script_path = ExpectedEntry

\* The rows a step submits
NewRows == {sink'[i] : i \in DOMAIN sink' \ DOMAIN sink}

\* C13: every value held in output and in flags is serialization-safe: no
\* raw timestamp or other non-serializable value remains at any depth.
C13_ValuesSerializationSafe ==
    /\ \A k \in DOMAIN output : JsonSerializable(output[k])
    /\ \A n \in DOMAIN flags : JsonSerializable(flags[n])

\* C14: the duration_ms of every submitted record is non-negative, whatever
\* the clock read at scope entry and at scope exit.
C14_DurationNonNegative ==
    \A i \in DOMAIN sink : sink[i].duration_ms >= 0

\* A value as it is held once normalized: a primitive as it is, a naive
\* timestamp as its ISO-8601 text in UTC
Held(value) ==
    IF value.type = "datetime" THEN PyStr("2024-05-01T10:00:00+00:00") ELSE value

\* C15: set_output leaves exactly the keys of the given mapping with their
\* normalized values (a mapping of primitives unchanged), and add_output
\* changes only the one key it is given.
C15_SetOutputOverwrites ==
    [][/\ call'.op = "set_output" =>
            /\ DOMAIN output' = DOMAIN call'.payload
            /\ \A k \in DOMAIN output' : output'[k] = Held(call'.payload[k])
       /\ call'.op = "add_output" =>
            /\ DOMAIN output' = DOMAIN output \cup {call'.key}
            /\ \A k \in DOMAIN output : k # call'.key => output'[k] = output[k]]_vars

\* C15 witness: set_output of a mapping of one primitive, during a run
\* marked as failed, leaves that mapping as the output
C15_Witness ==
    /\ call.op = "set_output"
    /\ call.payload = ("rows" :> PyInt("1"))
    /\ output = ("rows" :> PyInt("1"))
    /\ success = FALSE
    /\ pc = "running"

\* C16: the run_time of the submitted record is the UTC timestamp taken
\* when the scope was entered, whatever the clock reads at scope exit.
C16_RunTimeCapturedAtEntry ==
    [][/\ call'.op = "enter" => run_time' = Some([ticks |-> call'.now, tz |-> "+00:00"])
       /\ call'.op = "exit" =>
            /\ run_time # None
            /\ run_time' = run_time
            /\ \A row \in NewRows : row.run_time = run_time]_vars

\* C16 witness: entered at 0, left at 2, the record carries 0
C16_Witness ==
    /\ Exited
    /\ call.now = 2
    /\ Len(sink) = 1
    /\ sink[1].run_time = Some([ticks |-> 0, tz |-> "+00:00"])

\* C17: no operation of the recorder changes the automation id, the schema
\* and table names or the context, and the submitted record carries them as
\* they were at construction.
C17_IdentityAndContextFrozen ==
    [][/\ automation_id' = automation_id
       /\ schema_name' = schema_name
       /\ table_name' = table_name
       /\ context' = context
       /\ \A row \in NewRows :
            /\ row.automation_id = automation_id
            /\ row.relation = <<schema_name, table_name>>
            /\ row.context = [json |-> context]]_vars

\* C17 witness: a record submitted after output and flags were stored
C17_Witness ==
    /\ Exited
    /\ Len(sink) = 1
    /\ DOMAIN output = {"error", "rows"}
    /\ flags # EmptyMap
    /\ context # EmptyMap
    /\ sink[1].context = [json |-> context]
    /\ sink[1].automation_id = 1

\* Every flag key is non-empty and trimmed, every flag value is true or a
\* metadata map
FlagsWellFormed ==
    \A n \in DOMAIN flags :
        /\ n # <<>>
        /\ ~IsSpace(n[1]) /\ ~IsSpace(n[Len(n)])
        /\ flags[n] = PyTrue \/ flags[n].type = "dict"

\* C19: after any add_flag calls every flag key is a non-empty trimmed
\* string and every value is true or a metadata map; a flag that holds a
\* metadata map keeps it and every key of it.
C19_FlagsWellFormedAndGrowing ==
    [][/\ FlagsWellFormed'
       /\ \A n \in DOMAIN flags :
            /\ n \in DOMAIN flags'
            /\ flags[n].type = "dict" =>
                 /\ flags'[n].type = "dict"
                 /\ DOMAIN flags[n].elems \subseteq DOMAIN flags'[n].elems]_vars

\* C19 witness: flag x holds two metadata keys after a bare add_flag(" x ")
C19_Witness ==
    /\ call.op = "add_flag"
    /\ call.name = Some(<<" ", "x", " ">>)
    /\ call.meta = EmptyMap
    /\ raised = None
    /\ DOMAIN flags = {<<"x">>, <<"y">>}
    /\ flags[<<"x">>].type = "dict"
    /\ DOMAIN flags[<<"x">>].elems = {"a", "b"}
    /\ flags[<<"y">>] = PyTrue

\* C20: the record's success is false exactly when mark_failure was called
\* before the exit or an exception left the scope: success starts true, only
\* mark_failure lowers it before the exit, and the record carries it as it
\* then stands unless an exception is leaving.
C20_SuccessOnlyLostByFailure ==
    /\ success = TRUE
    /\ [][/\ call'.op = "mark_failure" => success' = FALSE
          /\ call'.op \in {"set_output", "add_output", "add_flag", "enter"} =>
               success' = success
          /\ call'.op = "exit" =>
               \A row \in NewRows : row.success = (success /\ call'.exc = None)]_vars

\* C20 witness: a run with an "error" output and a flag, whose write failed,
\* is recorded as successful
C20_Witness ==
    /\ Exited
    /\ call.exc = None
    /\ call.wh = "error"
    /\ "error" \in DOMAIN output
    /\ flags # EmptyMap
    /\ Len(sink) = 1
    /\ sink[1].success = TRUE

====
